---------------------------- MODULE Spec2Model ----------------------------
(* A model of package json's encoder (src/src/pkg/json/encode.go):         *)
(* Marshal, MarshalForHTML, HTMLEscape, the recursive reflectValueQuoted   *)
(* dispatch and the string escaper.                                        *)
(*                                                                         *)
(* Bytes are the integers 0..255, a Go string or []byte is a sequence of   *)
(* bytes.  Indices i, start, n are 0-based as in the source; s[i] of the   *)
(* source is s[i + 1] here and s[a:b] is SubSeq(s, a + 1, b).              *)
EXTENDS Integers, Sequences, FiniteSets, TLC

VARIABLES
    op,     \* the operation last called: "init", "string", "HTMLEscape", ...
    v,      \* the value handed to Marshal / MarshalForHTML
    s,      \* the text handed to encodeState.string / the src of HTMLEscape
    dst0,   \* content of the buffer before the call
    e,      \* the encodeState (or dst buffer) after the call
    ret     \* what the call returned

vars == <<op, v, s, dst0, e, ret>>

--------------------------------------------------------------------------
(* Bounds of the model.                                                    *)

MaxStrLen == 3
MaxSrcLen == 3
MaxBytesLen == 3
MaxElems == 2
MaxKeys == 2
MaxFields == 3

--------------------------------------------------------------------------
(* Character literals used by the source.                                  *)

Byte ==
    [quote |-> 34, backslash |-> 92, lt |-> 60, gt |-> 62, amp |-> 38,
     nl |-> 10, cr |-> 13, space |-> 32, n |-> 110, r |-> 114, u |-> 117,
     zero |-> 48, lbrace |-> 123, rbrace |-> 125, lbrack |-> 91,
     rbrack |-> 93, comma |-> 44, colon |-> 58, minus |-> 45, dot |-> 46,
     dollar |-> 36, underscore |-> 95, eq |-> 61, plus |-> 43, slash |-> 47,
     tab |-> 9]

\* var hex = "0123456789abcdef"; hex[k] of the source is hex[k + 1] here.
hex == <<48, 49, 50, 51, 52, 53, 54, 55, 56, 57, 97, 98, 99, 100, 101, 102>>

\* utf8.RuneSelf and utf8.RuneError
RuneSelf == 128
RuneError == 65533

\* The length from which a []byte is encoded through a stream encoder.
ShortLimit == 1024

--------------------------------------------------------------------------
(* Errors (os.Error values) and the encodeState.                           *)

NoError == [kind |-> "nil", S |-> <<>>, Type |-> "", Error |-> ""]

InvalidUTF8Error(str) ==
    [kind |-> "InvalidUTF8Error", S |-> str, Type |-> "", Error |-> ""]

UnsupportedTypeError(t) ==
    [kind |-> "UnsupportedTypeError", S |-> <<>>, Type |-> t, Error |-> ""]

MarshalerError(t, err) ==
    [kind |-> "MarshalerError", S |-> <<>>, Type |-> t, Error |-> err]

\* e := &encodeState{} : an empty buffer, nothing panicking.  strs is a
\* history of the texts handed to encodeState.string, in call order; the
\* code keeps no such field and nothing reads it but the properties.
NewEncodeState == [buf |-> <<>>, panic |-> NoError, strs |-> <<>>]

EncodeStateOf(b) == [buf |-> b, panic |-> NoError, strs |-> <<>>]

\* A panic is under way: e.error was called and marshal has not recovered
\* it yet.  No statement runs between the panic and the recover, so every
\* operation on a panicking encodeState leaves it as it is.
Panicking(es) == es.panic # NoError

WriteByte(es, b) ==
    IF Panicking(es) THEN es ELSE [es EXCEPT !.buf = Append(@, b)]

WriteString(es, str) ==
    IF Panicking(es) THEN es ELSE [es EXCEPT !.buf = @ \o str]

\* func (e *encodeState) error(err os.Error) { panic(err) }
error(es, err) ==
    IF Panicking(es) THEN es ELSE [es EXCEPT !.panic = err]

--------------------------------------------------------------------------
(* utf8.DecodeRuneInString: the rune at the head of str and its width in   *)
(* bytes, (RuneError, 1) when no well-formed sequence starts there.        *)

IsCont(b) == 128 <= b /\ b < 192

DecodeRuneInString(str) ==
    LET n  == Len(str)
        c0 == str[1]
        bad == [c |-> RuneError, size |-> 1]
    IN  IF n < 1 THEN [c |-> RuneError, size |-> 0]
        ELSE IF c0 < 128 THEN [c |-> c0, size |-> 1]
        ELSE IF c0 < 192 THEN bad
        ELSE IF n < 2 \/ ~IsCont(str[2]) THEN bad
        ELSE IF c0 < 224 THEN
            LET rune == (c0 % 32) * 64 + (str[2] % 64)
            IN  IF rune <= 127 THEN bad ELSE [c |-> rune, size |-> 2]
        ELSE IF n < 3 \/ ~IsCont(str[3]) THEN bad
        ELSE IF c0 < 240 THEN
            LET rune == (c0 % 16) * 4096 + (str[2] % 64) * 64 + (str[3] % 64)
            IN  IF rune <= 2047 THEN bad ELSE [c |-> rune, size |-> 3]
        ELSE IF n < 4 \/ ~IsCont(str[4]) THEN bad
        ELSE IF c0 < 248 THEN
            LET rune == (c0 % 8) * 262144 + (str[2] % 64) * 4096
                        + (str[3] % 64) * 64 + (str[4] % 64)
            IN  IF rune <= 65535 THEN bad ELSE [c |-> rune, size |-> 4]
        ELSE bad

--------------------------------------------------------------------------
(* func (e *encodeState) string(s string) (int, os.Error)                  *)

\* The switch of lines 420-438: the escape written for byte b.
WriteEscape(es, b) ==
    IF b = Byte.backslash \/ b = Byte.quote
        THEN WriteByte(WriteByte(es, Byte.backslash), b)
    ELSE IF b = Byte.nl
        THEN WriteByte(WriteByte(es, Byte.backslash), Byte.n)
    ELSE IF b = Byte.cr
        THEN WriteByte(WriteByte(es, Byte.backslash), Byte.r)
    ELSE WriteByte(WriteByte(
            WriteString(es, <<Byte.backslash, Byte.u, Byte.zero, Byte.zero>>),
            hex[(b \div 16) + 1]), hex[(b % 16) + 1])

RECURSIVE stringLoopLenient(_, _, _, _)
\* The for loop without the error of lines 444-446: a malformed byte is
\* passed over like a well-formed sequence.
stringLoopLenient(es, str, i, start) ==
    IF i >= Len(str) THEN [e |-> es, start |-> start]
    ELSE
        LET b == str[i + 1] IN
        IF b < RuneSelf THEN
            IF 32 <= b /\ b # Byte.backslash /\ b # Byte.quote
                       /\ b # Byte.lt /\ b # Byte.gt
            THEN stringLoopLenient(es, str, i + 1, start)
            ELSE
                LET e1 == IF start < i
                            THEN WriteString(es, SubSeq(str, start + 1, i))
                            ELSE es
                IN  stringLoopLenient(WriteEscape(e1, b), str, i + 1, i + 1)
        ELSE
            LET d == DecodeRuneInString(SubSeq(str, i + 1, Len(str)))
            IN  stringLoopLenient(es, str, i + d.size, start)

RECURSIVE stringLoop(_, _, _, _)
\* The for loop of lines 411-448 from index i on; gives the encodeState
\* and start as the loop leaves them.
stringLoop(es, str, i, start) ==
    IF i >= Len(str) THEN [e |-> es, start |-> start]
    ELSE
        LET b == str[i + 1] IN
        IF b < RuneSelf THEN
            IF 32 <= b /\ b # Byte.backslash /\ b # Byte.quote
                       /\ b # Byte.lt /\ b # Byte.gt
            THEN stringLoop(es, str, i + 1, start)
            ELSE
                LET e1 == IF start < i
                            THEN WriteString(es, SubSeq(str, start + 1, i))
                            ELSE es
                IN  stringLoop(WriteEscape(e1, b), str, i + 1, i + 1)
        ELSE
            LET d == DecodeRuneInString(SubSeq(str, i + 1, Len(str))) IN
            IF d.c = RuneError /\ d.size = 1
            THEN [e |-> error(es, InvalidUTF8Error(str)), start |-> start]
            ELSE stringLoop(es, str, i + d.size, start)

\* Lines 449-452 after a loop that left l: the last run of plain bytes and
\* the closing quote.
stringTail(l, str) ==
    WriteByte(IF l.start < Len(str)
                THEN WriteString(l.e, SubSeq(str, l.start + 1, Len(str)))
                ELSE l.e,
              Byte.quote)

\* return e.Len() - len0, nil, on the encodeState e3 the call leaves.
stringReturn(e3, len0) ==
    [e |-> e3, n |-> IF Panicking(e3) THEN 0 ELSE Len(e3.buf) - len0]

\* string without the write of the last run of plain bytes (lines 449-451).
stringNoTail(es, str) ==
    IF Panicking(es) THEN [e |-> es, n |-> 0]
    ELSE stringReturn(
            WriteByte(stringLoop(WriteByte([es EXCEPT !.strs = Append(@, str)],
                                           Byte.quote), str, 0, 0).e,
                      Byte.quote),
            Len(es.buf))

\* Gives [e |-> the encodeState after the call, n |-> the count returned].
string(es, str) ==
    IF Panicking(es) THEN [e |-> es, n |-> 0]
    ELSE stringReturn(
            stringTail(stringLoop(WriteByte([es EXCEPT !.strs = Append(@, str)],
                                            Byte.quote), str, 0, 0),
                       str),
            Len(es.buf))

--------------------------------------------------------------------------
(* func HTMLEscape(dst *bytes.Buffer, src []byte)                          *)

RECURSIVE HTMLEscapeLoopNoAmp(_, _, _, _)
\* The range loop with '&' left out of the test of line 136.
HTMLEscapeLoopNoAmp(dst, src, i, start) ==
    IF i >= Len(src) THEN [dst |-> dst, start |-> start]
    ELSE
        LET c == src[i + 1] IN
        IF c = Byte.lt \/ c = Byte.gt
        THEN
            LET d1 == IF start < i THEN dst \o SubSeq(src, start + 1, i)
                                   ELSE dst
                d2 == d1 \o <<Byte.backslash, Byte.u, Byte.zero, Byte.zero>>
                d3 == Append(Append(d2, hex[(c \div 16) + 1]),
                             hex[(c % 16) + 1])
            IN  HTMLEscapeLoopNoAmp(d3, src, i + 1, i + 1)
        ELSE HTMLEscapeLoopNoAmp(dst, src, i + 1, start)

RECURSIVE HTMLEscapeLoop(_, _, _, _)
\* The range loop of lines 135-145 from index i on.
HTMLEscapeLoop(dst, src, i, start) ==
    IF i >= Len(src) THEN [dst |-> dst, start |-> start]
    ELSE
        LET c == src[i + 1] IN
        IF c = Byte.lt \/ c = Byte.gt \/ c = Byte.amp
        THEN
            LET d1 == IF start < i THEN dst \o SubSeq(src, start + 1, i)
                                   ELSE dst
                d2 == d1 \o <<Byte.backslash, Byte.u, Byte.zero, Byte.zero>>
                d3 == Append(Append(d2, hex[(c \div 16) + 1]),
                             hex[(c % 16) + 1])
            IN  HTMLEscapeLoop(d3, src, i + 1, i + 1)
        ELSE HTMLEscapeLoop(dst, src, i + 1, start)

\* Gives the content of dst after the call.
HTMLEscape(dst, src) ==
    LET l == HTMLEscapeLoop(dst, src, 0, 0)
    IN  IF l.start < Len(src)
            THEN l.dst \o SubSeq(src, l.start + 1, Len(src))
            ELSE l.dst

--------------------------------------------------------------------------
(* Values (reflect.Value).  Every value is a record with its kind, the     *)
(* name of its type, its Marshaler implementation (hook) and the fields of *)
(* its kind:                                                               *)
(*   Bool b | Int n | Uint n | Float f2 (twice the number) | String str    *)
(*   Struct fields | Map keyKind isNil pairs (in the order MapKeys         *)
(*   delivers them) | Array, Slice elems | Ptr, Interface isNil elem       *)
(*   | Func | Invalid (reflect.ValueOf(nil))                               *)

NoHook == [has |-> FALSE, err |-> "", out |-> <<>>]

\* A MarshalJSON method that returns (out, nil), or (nil, err) when err is
\* not "".
Hook(out, err) == [has |-> TRUE, err |-> err, out |-> out]

InvalidV == [kind |-> "Invalid"]
BoolV(b) == [kind |-> "Bool", type |-> "bool", hook |-> NoHook, b |-> b]
IntV(n) == [kind |-> "Int", type |-> "int", hook |-> NoHook, n |-> n]
UintV(n) == [kind |-> "Uint", type |-> "uint", hook |-> NoHook, n |-> n]
Uint8V(n) == [kind |-> "Uint", type |-> "uint8", hook |-> NoHook, n |-> n]
FloatV(f2) == [kind |-> "Float", type |-> "float64", hook |-> NoHook, f2 |-> f2]
StringV(str) == [kind |-> "String", type |-> "string", hook |-> NoHook, str |-> str]
FuncV == [kind |-> "Func", type |-> "func()", hook |-> NoHook]
StructV(t, fields) ==
    [kind |-> "Struct", type |-> t, hook |-> NoHook, fields |-> fields]
MapV(t, keyKind, isNil, pairs) ==
    [kind |-> "Map", type |-> t, hook |-> NoHook, keyKind |-> keyKind,
     isNil |-> isNil, pairs |-> pairs]
SliceV(t, elems) == [kind |-> "Slice", type |-> t, hook |-> NoHook, elems |-> elems]
ArrayV(t, elems) == [kind |-> "Array", type |-> t, hook |-> NoHook, elems |-> elems]
PtrV(t, elem) ==
    [kind |-> "Ptr", type |-> t, hook |-> NoHook, isNil |-> FALSE, elem |-> elem]
NilPtrV(t) ==
    [kind |-> "Ptr", type |-> t, hook |-> NoHook, isNil |-> TRUE, elem |-> InvalidV]
InterfaceV(elem) ==
    [kind |-> "Interface", type |-> "interface {}", hook |-> NoHook,
     isNil |-> FALSE, elem |-> elem]
NilInterfaceV ==
    [kind |-> "Interface", type |-> "interface {}", hook |-> NoHook,
     isNil |-> TRUE, elem |-> InvalidV]

\* The same value as a named type t whose method set holds MarshalJSON.
WithHook(val, t, h) == [val EXCEPT !.type = t, !.hook = h]

\* var byteSliceType = reflect.TypeOf([]byte(nil))
byteSliceType == "[]uint8"

BytesOf(elems) == [i \in 1..Len(elems) |-> elems[i].n]
ByteSliceV(bs) == SliceV(byteSliceType, [i \in 1..Len(bs) |-> Uint8V(bs[i])])

\* A struct field: reflect.StructField (Name, PkgPath, the json key of Tag)
\* with the field's value.
Field(name, pkgPath, tag, val) ==
    [Name |-> name, PkgPath |-> pkgPath, Tag |-> tag, val |-> val]

--------------------------------------------------------------------------
(* Library functions the encoder calls.                                    *)

RECURSIVE Digits(_)
\* The decimal digits of n >= 0.
Digits(n) ==
    IF n < 10 THEN <<48 + n>> ELSE Append(Digits(n \div 10), 48 + (n % 10))

\* strconv.Itoa64 and strconv.Uitoa64
Itoa64(n) == IF n < 0 THEN <<Byte.minus>> \o Digits(-n) ELSE Digits(n)
Uitoa64(n) == Digits(n)

\* strconv.FtoaN(f, 'g', -1, bits) for f = f2 / 2 of small magnitude, where
\* the shortest form has no exponent: the integer part and ".5" if any.
FtoaN(f2) ==
    LET a == IF f2 < 0 THEN -f2 ELSE f2
        sign == IF f2 < 0 THEN <<Byte.minus>> ELSE <<>>
    IN  sign \o Digits(a \div 2)
             \o (IF a % 2 = 1 THEN <<Byte.dot, 53>> ELSE <<>>)

\* The base64 standard alphabet.
B64(k) ==
    IF k < 26 THEN 65 + k
    ELSE IF k < 52 THEN 97 + (k - 26)
    ELSE IF k < 62 THEN 48 + (k - 52)
    ELSE IF k = 62 THEN Byte.plus ELSE Byte.slash

\* The encoding of one group of 1 to 3 bytes, padded with '='.
B64Group(g) ==
    LET b1 == g[1]
        b2 == IF Len(g) >= 2 THEN g[2] ELSE 0
        b3 == IF Len(g) >= 3 THEN g[3] ELSE 0
    IN  << B64(b1 \div 4),
           B64((b1 % 4) * 16 + (b2 \div 16)),
           IF Len(g) >= 2 THEN B64((b2 % 16) * 4 + (b3 \div 64)) ELSE Byte.eq,
           IF Len(g) >= 3 THEN B64(b3 % 64) ELSE Byte.eq >>

\* base64.StdEncoding.Encode(dst, s) into a dst of EncodedLen(len(s)), that
\* is (len(s) + 2) / 3 * 4, bytes: output byte k belongs to the group of
\* input bytes 3 * ((k - 1) / 4) + 1 and the two after it.
Base64Encode(bs) ==
    [k \in 1..(4 * ((Len(bs) + 2) \div 3)) |->
        LET first == 3 * ((k - 1) \div 4) + 1
            last  == IF first + 2 <= Len(bs) THEN first + 2 ELSE Len(bs)
        IN  B64Group(SubSeq(bs, first, last))[((k - 1) % 4) + 1]]

\* base64.NewEncoder(base64.StdEncoding, e); enc.Write(s); enc.Close():
\* Write encodes the whole 3-byte groups, Close the padded rest.
Base64Stream(es, bs) ==
    LET whole == 3 * (Len(bs) \div 3)
        e1 == WriteString(es, Base64Encode(SubSeq(bs, 1, whole)))
    IN  IF whole < Len(bs)
            THEN WriteString(e1, B64Group(SubSeq(bs, whole + 1, Len(bs))))
            ELSE e1

\* The scanner behind Compact, over JSON texts made of the digit 1, the
\* brackets, the comma and blanks: mode is what may come next, depth the
\* number of open arrays.
ScanStep(st, c) ==
    LET bad == [mode |-> "error", depth |-> 0]
        close == IF st.depth > 0
                    THEN [mode |-> "end", depth |-> st.depth - 1] ELSE bad
        next == IF st.depth > 0
                    THEN [mode |-> "begin", depth |-> st.depth] ELSE bad
        open == [mode |-> "beginOrEnd", depth |-> st.depth + 1]
    IN  IF st.mode = "error" THEN bad
        ELSE IF c = Byte.space THEN
            (IF st.mode = "num" THEN [st EXCEPT !.mode = "end"] ELSE st)
        ELSE IF st.mode = "begin" THEN
            (IF c = 49 THEN [st EXCEPT !.mode = "num"]
             ELSE IF c = Byte.lbrack THEN open ELSE bad)
        ELSE IF st.mode = "beginOrEnd" THEN
            (IF c = 49 THEN [st EXCEPT !.mode = "num"]
             ELSE IF c = Byte.lbrack THEN open
             ELSE IF c = Byte.rbrack THEN close ELSE bad)
        ELSE IF st.mode = "num" THEN
            (IF c = 49 THEN st
             ELSE IF c = Byte.comma THEN next
             ELSE IF c = Byte.rbrack THEN close ELSE bad)
        ELSE \* "end"
            (IF c = Byte.comma THEN next
             ELSE IF c = Byte.rbrack THEN close ELSE bad)

RECURSIVE ScanFrom(_, _, _)
ScanFrom(st, src, i) ==
    IF i > Len(src) THEN st ELSE ScanFrom(ScanStep(st, src[i]), src, i + 1)

ValidJSON(src) ==
    LET st == ScanFrom([mode |-> "begin", depth |-> 0], src, 1)
    IN  st.mode \in {"num", "end"} /\ st.depth = 0

\* Compact(dst, src): appends src without its insignificant blanks to dst,
\* or leaves dst as it was and returns an error when src is not valid JSON.
Compact(dst, src) ==
    IF ValidJSON(src)
        THEN [err |-> "", buf |-> dst \o SelectSeq(src, LAMBDA c : c # Byte.space)]
        ELSE [err |-> "SyntaxError", buf |-> dst]

\* parseTag(tag): the text before the first comma, and the rest.
RECURSIVE IndexComma(_, _)
IndexComma(tag, i) ==
    IF i > Len(tag) THEN 0
    ELSE IF tag[i] = Byte.comma THEN i ELSE IndexComma(tag, i + 1)

parseTag(tag) ==
    LET idx == IndexComma(tag, 1)
    IN  IF idx = 0 THEN [name |-> tag, opts |-> <<>>]
        ELSE [name |-> SubSeq(tag, 1, idx - 1),
              opts |-> SubSeq(tag, idx + 1, Len(tag))]

RECURSIVE Contains(_, _)
\* tagOptions.Contains: optionName is one of the comma-separated options.
Contains(opts, optionName) ==
    IF opts = <<>> THEN FALSE
    ELSE LET idx == IndexComma(opts, 1)
             head == IF idx = 0 THEN opts ELSE SubSeq(opts, 1, idx - 1)
         IN  \/ head = optionName
             \/ idx # 0 /\ Contains(SubSeq(opts, idx + 1, Len(opts)), optionName)

omitemptyName == <<111, 109, 105, 116, 101, 109, 112, 116, 121>>
stringName == <<115, 116, 114, 105, 110, 103>>

\* unicode.IsLetter and unicode.IsDigit on the ASCII range.
IsLetter(c) == (65 <= c /\ c <= 90) \/ (97 <= c /\ c <= 122)
IsDigit(c) == 48 <= c /\ c <= 57

\* stringValues.Less: sv.get(i) < sv.get(j), Go's bytewise string order.
StrLess(a, b) ==
    \E k \in 1..(Len(a) + 1) :
        /\ k <= Len(b)
        /\ \A j \in 1..(k - 1) : a[j] = b[j]
        /\ (k = Len(a) + 1 \/ a[k] < b[k])

RECURSIVE InsertSorted(_, _)
\* sort.Sort on strings, by insertion.
InsertSorted(sorted, k) ==
    IF sorted = <<>> THEN <<k>>
    ELSE IF StrLess(k, Head(sorted)) THEN <<k>> \o sorted
    ELSE <<Head(sorted)>> \o InsertSorted(Tail(sorted), k)

RECURSIVE SortFrom(_, _)
SortFrom(sv, i) ==
    IF i > Len(sv) THEN <<>> ELSE InsertSorted(SortFrom(sv, i + 1), sv[i])

--------------------------------------------------------------------------
(* The encoder.                                                            *)

\* func isValidTag(s string) bool
isValidTag(str) ==
    /\ str # <<>>
    /\ \A i \in 1..Len(str) :
        LET c == str[i] IN
        ~(c # Byte.dollar /\ c # Byte.minus /\ c # Byte.underscore
          /\ ~IsLetter(c) /\ ~IsDigit(c))

\* isEmptyValue without the case of the floating-point kinds.
isEmptyValueNoFloat(val) ==
    IF val.kind \in {"Array", "Slice"} THEN Len(val.elems) = 0
    ELSE IF val.kind = "Map" THEN Len(val.pairs) = 0
    ELSE IF val.kind = "String" THEN Len(val.str) = 0
    ELSE IF val.kind = "Bool" THEN ~val.b
    ELSE IF val.kind = "Int" THEN val.n = 0
    ELSE IF val.kind = "Uint" THEN val.n = 0
    ELSE IF val.kind \in {"Interface", "Ptr"} THEN val.isNil
    ELSE FALSE

\* func isEmptyValue(v reflect.Value) bool
isEmptyValue(val) ==
    IF val.kind \in {"Array", "Slice"} THEN Len(val.elems) = 0
    ELSE IF val.kind = "Map" THEN Len(val.pairs) = 0
    ELSE IF val.kind = "String" THEN Len(val.str) = 0
    ELSE IF val.kind = "Bool" THEN ~val.b
    ELSE IF val.kind = "Int" THEN val.n = 0
    ELSE IF val.kind = "Uint" THEN val.n = 0
    ELSE IF val.kind = "Float" THEN val.f2 = 0
    ELSE IF val.kind \in {"Interface", "Ptr"} THEN val.isNil
    ELSE FALSE

\* v.MapKeys(), in the order the map delivers them, and v.MapIndex(k).
MapKeys(val) == [i \in 1..Len(val.pairs) |-> val.pairs[i].k]
MapIndex(val, k) ==
    (CHOOSE p \in {val.pairs[i] : i \in 1..Len(val.pairs)} : p.k = k).val

\* The keys left in the order MapKeys delivered them.
SortNone(sv) == sv

\* sort.Sort(sv)
Sort(sv) == SortFrom(sv, 1)

\* j, ok := v.Interface().(Marshaler): an interface value gives the value
\* it holds, a nil interface gives nil, which is no Marshaler.
Implements(val) ==
    IF val.kind = "Interface" THEN ~val.isNil /\ val.elem.hook.has
    ELSE val.hook.has

MarshalJSON(val) ==
    IF val.kind = "Interface" THEN val.elem.hook ELSE val.hook

nullText == <<110, 117, 108, 108>>
trueText == <<116, 114, 117, 101>>
falseText == <<102, 97, 108, 115, 101>>

\* writeString that stays (*encodeState).WriteString when quoted.
writeStringPlain(es, quoted, str) == WriteString(es, str)

\* writeString of lines 255-258: (*encodeState).string when quoted.
writeString(es, quoted, str) ==
    IF quoted THEN string(es, str).e ELSE WriteString(es, str)

RECURSIVE reflectValueQuoted(_, _, _)
RECURSIVE structLoop(_, _, _, _)
RECURSIVE mapLoop(_, _, _, _)
RECURSIVE arrayLoop(_, _, _)
RECURSIVE Marshal(_)

\* func (e *encodeState) reflectValue(v reflect.Value)
reflectValue(es, val) == reflectValueQuoted(es, val, FALSE)

\* The Marshaler branch with the hook's bytes written as they are, without
\* Compact.
marshalerBranchRaw(es, val) ==
    LET r == MarshalJSON(val)
    IN  IF r.err # "" THEN error(es, MarshalerError(val.type, r.err))
        ELSE WriteString(es, r.out)

\* The Marshaler branch, lines 243-253.
marshalerBranch(es, val) ==
    LET r == MarshalJSON(val)
        c == IF r.err = "" THEN Compact(es.buf, r.out)
                           ELSE [err |-> r.err, buf |-> es.buf]
    IN  IF c.err # "" THEN error(es, MarshalerError(val.type, c.err))
        ELSE [es EXCEPT !.buf = c.buf]

\* Lines 281-284 with sb, err the result of Marshal(v.String()); the texts
\* that Marshal handed to its escaper join the history.
stringQuoted(es, sb) ==
    IF sb.err # NoError
        THEN error([es EXCEPT !.strs = @ \o sb.strs], sb.err)
        ELSE string([es EXCEPT !.strs = @ \o sb.strs], sb.bytes).e

\* case reflect.String, lines 278-287.
stringCase(es, val, quoted) ==
    IF quoted THEN stringQuoted(es, Marshal(StringV(val.str)))
              ELSE string(es, val.str).e

\* The field loop of lines 294-320 from field i on.
structLoop(es, val, i, first) ==
    IF Panicking(es) \/ i >= Len(val.fields) THEN es
    ELSE
        LET f == val.fields[i + 1] IN
        IF f.PkgPath # "" THEN structLoop(es, val, i + 1, first)
        ELSE
            LET tv == f.Tag
                p == parseTag(tv)
                tag == IF tv # <<>> /\ isValidTag(p.name) THEN p.name
                                                          ELSE f.Name
                omitEmpty == tv # <<>> /\ Contains(p.opts, omitemptyName)
                quoted == tv # <<>> /\ Contains(p.opts, stringName)
                fieldValue == f.val
            IN  IF omitEmpty /\ isEmptyValue(fieldValue)
                THEN structLoop(es, val, i + 1, first)
                ELSE
                    LET e1 == IF first THEN es
                                       ELSE WriteByte(es, Byte.comma)
                        e2 == string(e1, tag).e
                        e3 == WriteByte(e2, Byte.colon)
                        e4 == reflectValueQuoted(e3, fieldValue, quoted)
                    IN  structLoop(e4, val, i + 1, FALSE)

\* case reflect.Struct, lines 289-321.
structCase(es, val) ==
    WriteByte(structLoop(WriteByte(es, Byte.lbrace), val, 0, TRUE),
              Byte.rbrace)

\* The key loop of lines 334-341 from index i on.
mapLoop(es, val, sv, i) ==
    IF Panicking(es) \/ i >= Len(sv) THEN es
    ELSE
        LET k == sv[i + 1]
            e1 == IF i > 0 THEN WriteByte(es, Byte.comma) ELSE es
            e2 == string(e1, k).e
            e3 == WriteByte(e2, Byte.colon)
            e4 == reflectValue(e3, MapIndex(val, k))
        IN  mapLoop(e4, val, sv, i + 1)

\* case reflect.Map, lines 323-342.
mapCase(es, val) ==
    IF val.keyKind # "String" THEN error(es, UnsupportedTypeError(val.type))
    ELSE IF val.isNil THEN WriteString(es, nullText)
    ELSE
        LET sv == Sort(MapKeys(val))
        IN  WriteByte(mapLoop(WriteByte(es, Byte.lbrace), val, sv, 0),
                      Byte.rbrace)

\* The element loop of lines 365-370 from index i on.
arrayLoop(es, val, i) ==
    IF Panicking(es) \/ i >= Len(val.elems) THEN es
    ELSE
        LET e1 == IF i > 0 THEN WriteByte(es, Byte.comma) ELSE es
            e2 == reflectValue(e1, val.elems[i + 1])
        IN  arrayLoop(e2, val, i + 1)

\* The []byte branch without enc.Close() on the long path.
byteSliceBranchNoClose(es, val) ==
    LET bs == BytesOf(val.elems)
        e1 == WriteByte(es, Byte.quote)
        e2 == IF Len(bs) < ShortLimit
                THEN WriteString(e1, Base64Encode(bs))
                ELSE WriteString(e1,
                        Base64Encode(SubSeq(bs, 1, 3 * (Len(bs) \div 3))))
    IN  WriteByte(e2, Byte.quote)

\* The []byte branch, lines 345-362.
byteSliceBranch(es, val) ==
    LET bs == BytesOf(val.elems)
        e1 == WriteByte(es, Byte.quote)
        e2 == IF Len(bs) < ShortLimit
                THEN WriteString(e1, Base64Encode(bs))
                ELSE Base64Stream(e1, bs)
    IN  WriteByte(e2, Byte.quote)

\* case reflect.Array, reflect.Slice, lines 344-371.
arrayCase(es, val) ==
    IF val.type = byteSliceType THEN byteSliceBranch(es, val)
    ELSE
        WriteByte(arrayLoop(WriteByte(es, Byte.lbrack), val, 0), Byte.rbrack)

\* case reflect.Interface, reflect.Ptr, lines 373-378.
ptrCase(es, val) ==
    IF val.isNil THEN WriteString(es, nullText)
    ELSE reflectValue(es, val.elem)

\* func (e *encodeState) reflectValueQuoted(v reflect.Value, quoted bool)
reflectValueQuoted(es, val, quoted) ==
    IF Panicking(es) THEN es
    ELSE IF val.kind = "Invalid" THEN WriteString(es, nullText)
    ELSE IF Implements(val) THEN marshalerBranch(es, val)
    ELSE IF val.kind = "Bool" THEN
        (IF val.b THEN writeString(es, quoted, trueText)
                  ELSE writeString(es, quoted, falseText))
    ELSE IF val.kind = "Int" THEN writeString(es, quoted, Itoa64(val.n))
    ELSE IF val.kind = "Uint" THEN writeString(es, quoted, Uitoa64(val.n))
    ELSE IF val.kind = "Float" THEN writeString(es, quoted, FtoaN(val.f2))
    ELSE IF val.kind = "String" THEN stringCase(es, val, quoted)
    ELSE IF val.kind = "Struct" THEN structCase(es, val)
    ELSE IF val.kind = "Map" THEN mapCase(es, val)
    ELSE IF val.kind \in {"Array", "Slice"} THEN arrayCase(es, val)
    ELSE IF val.kind \in {"Interface", "Ptr"} THEN ptrCase(es, val)
    ELSE error(es, UnsupportedTypeError(val.type))

\* The deferred function of lines 195-203 on the encodeState e1 the
\* traversal left: err is the os.Error that was panicking, if any.
recovered(e1) == [e |-> e1, err |-> e1.panic]

\* func (e *encodeState) marshal(v interface{}) (err os.Error): the
\* encodeState as the traversal left it, and the error recovered.
marshal(es, val) == recovered(reflectValue(es, val))

\* Lines 93-97 with m the encodeState and the error e.marshal(v) left.
MarshalReturn(m) ==
    IF m.err # NoError
        THEN [bytes |-> <<>>, err |-> m.err, strs |-> m.e.strs]
        ELSE [bytes |-> m.e.buf, err |-> NoError, strs |-> m.e.strs]

\* Marshal that returns what the buffer holds along with the error.
MarshalPartial(val) ==
    LET m == marshal(NewEncodeState, val)
    IN  [bytes |-> m.e.buf, err |-> m.err, strs |-> m.e.strs]

\* func Marshal(v interface{}) ([]byte, os.Error); strs is the history of
\* its encodeState.
Marshal(val) == MarshalReturn(marshal(NewEncodeState, val))

\* Lines 116-122 with b, err the result of Marshal(v).
HTMLEscaped(b) ==
    IF b.err # NoError THEN [bytes |-> <<>>, err |-> b.err, strs |-> b.strs]
    ELSE [bytes |-> HTMLEscape(<<>>, b.bytes), err |-> NoError,
          strs |-> b.strs]

\* func MarshalForHTML(v interface{}) ([]byte, os.Error)
MarshalForHTML(val) == HTMLEscaped(Marshal(val))

--------------------------------------------------------------------------
(* Inputs.                                                                 *)

RECURSIVE SeqsUpTo(_, _)
\* All sequences over S of length at most n.
SeqsUpTo(S, n) ==
    IF n = 0 THEN {<<>>}
    ELSE LET shorter == SeqsUpTo(S, n - 1)
         IN  shorter \cup {Append(t, x) : t \in shorter, x \in S}

\* Bytes of every class the escaper tells apart: a control byte, \n, \r,
\* ", &, <, >, \, a plain letter, and the bytes of U+00E9 (C3 A9) and of
\* U+FFFD (EF BF BD), which out of place are malformed, and C0, the lead
\* of an overlong form.
EscaperBytes == {1, 10, 13, 34, 38, 60, 62, 92, 97, 192, 195, 169, 239, 191, 189}

HtmlBytes == {Byte.lt, Byte.gt, Byte.amp, 97, Byte.backslash, Byte.quote}

PriorBufs == {<<>>, <<Byte.lt, 97>>}

\* Hook results: valid JSON, valid JSON with blanks, two kinds of invalid
\* JSON, and an error.
HookResults ==
    { Hook(<<49>>, ""), Hook(<<32, 91, 49, 44, 32, 49, 93>>, ""),
      Hook(<<91, 49>>, ""), Hook(<<49, 32, 49>>, ""), Hook(<<>>, "boom") }

OkHook == Hook(<<32, 91, 49, 44, 32, 49, 93>>, "")
ErrHook == Hook(<<>>, "boom")

Prims ==
    { BoolV(TRUE), BoolV(FALSE), IntV(0), IntV(5), IntV(-12), UintV(0),
      UintV(7), FloatV(0), FloatV(3), FloatV(-1) }

\* "", a, <, U+00E9, U+FFFD, ", and two malformed texts.
Texts ==
    { <<>>, <<97>>, <<60>>, <<195, 169>>, <<239, 191, 189>>, <<34>>,
      <<195>>, <<97, 191>> }

Strs == { StringV(t) : t \in Texts }

\* Byte sequences: []byte, a named slice of bytes, an array of bytes.
ShortBytes == SeqsUpTo({104, 105, 255}, MaxBytesLen)

FillBytes(n) == [i \in 1..n |-> 255]

ByteSeqs ==
    { ByteSliceV(bs) : bs \in ShortBytes }
    \cup { SliceV("main.Bytes", [i \in 1..Len(bs) |-> Uint8V(bs[i])]) :
            bs \in ShortBytes }
    \cup { ArrayV("[n]uint8", [i \in 1..Len(bs) |-> Uint8V(bs[i])]) :
            bs \in ShortBytes }

LongByteSlices ==
    { ByteSliceV(FillBytes(n)) :
        n \in {ShortLimit - 1, ShortLimit, ShortLimit + 1, ShortLimit + 2} }

EmptyStruct == StructV("struct {}", <<>>)
NilMap == MapV("map[string]int", "String", TRUE, <<>>)
EmptyMap == MapV("map[string]int", "String", FALSE, <<>>)
IntKeyMap == MapV("map[int]int", "Int", FALSE, <<>>)
NilIntKeyMap == MapV("map[int]int", "Int", TRUE, <<>>)
OneKeyMap ==
    MapV("map[string]int", "String", FALSE, <<[k |-> <<97>>, val |-> IntV(1)]>>)
EmptySlice == SliceV("[]int", <<>>)
OneSlice == SliceV("[]int", <<IntV(5)>>)

\* Values of types that implement Marshaler, of every structural kind.
Hooked ==
    { WithHook(x, "main.T", h) :
        x \in { EmptyStruct, BoolV(TRUE), IntV(0), StringV(<<97>>), OneKeyMap,
                OneSlice, FuncV, NilMap },
        h \in HookResults }
    \cup { WithHook(x, "*main.T", h) :
        x \in { NilPtrV("*main.T"), PtrV("*main.T", IntV(5)) },
        h \in HookResults }

Leaves ==
    Prims \cup Strs \cup ByteSeqs \cup Hooked
    \cup { FuncV, EmptyStruct, NilMap, EmptyMap, IntKeyMap, NilIntKeyMap,
           OneKeyMap, EmptySlice, OneSlice, NilPtrV("*int") }

\* What sequences, maps and struct fields hold: values of every kind, empty
\* and not, each way to fail, nil references.
Elems ==
    { BoolV(TRUE), BoolV(FALSE), IntV(0), IntV(5), UintV(0), UintV(7),
      FloatV(0), FloatV(3), StringV(<<>>), StringV(<<97>>), StringV(<<60>>),
      StringV(<<195>>), FuncV, EmptyStruct, NilMap, EmptyMap, OneKeyMap,
      IntKeyMap, EmptySlice, OneSlice, ArrayV("[0]int", <<>>),
      ArrayV("[1]int", <<IntV(0)>>), ByteSliceV(<<104, 105>>),
      NilPtrV("*int"), PtrV("*int", IntV(0)), NilInterfaceV,
      InterfaceV(IntV(5)), InterfaceV(WithHook(BoolV(TRUE), "main.T", OkHook)),
      WithHook(EmptyStruct, "main.T", OkHook),
      WithHook(IntV(0), "main.T", ErrHook),
      WithHook(NilPtrV("*main.T"), "*main.T", OkHook) }

Refs ==
    { PtrV("*T", x) : x \in Leaves }
    \cup { PtrV("*interface {}", x) : x \in {NilInterfaceV, InterfaceV(IntV(5))} }

Seqs ==
    { SliceV("[]interface {}", es) : es \in SeqsUpTo(Elems, MaxElems) }

\* Maps with string keys, in every order of delivery of their keys.
MapKeySet == { <<97>>, <<98>>, <<97, 98>>, <<195>> }

MapVals ==
    { IntV(1), StringV(<<97, 191>>), FuncV, NilInterfaceV,
      WithHook(IntV(0), "main.T", ErrHook) }

\* No two entries of seq are equal.
Distinct(seq) ==
    \A i, j \in 1..Len(seq) : i # j => seq[i] # seq[j]

KeyOf(p) == p.k

Maps ==
    { MapV("map[string]interface {}", "String", FALSE, ps) :
        ps \in { q \in SeqsUpTo([k : MapKeySet, val : MapVals], MaxKeys) :
                    Distinct([i \in 1..Len(q) |-> KeyOf(q[i])]) } }

\* Tags: none, omitempty, string, a name with both options, a name that is
\* not valid, a name alone.
omitemptyTag == <<Byte.comma>> \o omitemptyName
stringTag == <<Byte.comma>> \o stringName

Tags ==
    { <<>>, omitemptyTag, stringTag,
      <<110>> \o omitemptyTag \o stringTag, <<97, 60>>, <<110, 45, 49>> }

OneFieldStructs ==
    { StructV("main.S", <<Field(<<70>>, pkg, tag, x)>>) :
        pkg \in {"", "main"}, tag \in Tags, x \in Elems }

\* Fields of the structs of several fields: emitted, skipped as empty,
\* quoted and renamed, not exported, emitted though omitempty, two that
\* fail, and a quoted string.
SomeFields ==
    { Field(<<65>>, "", <<>>, IntV(5)),
      Field(<<66>>, "", omitemptyTag, IntV(0)),
      Field(<<67>>, "", <<110>> \o stringTag, UintV(7)),
      Field(<<100>>, "main", <<>>, IntV(1)),
      Field(<<69>>, "", omitemptyTag, BoolV(TRUE)),
      Field(<<71>>, "", <<>>, FuncV),
      Field(<<72>>, "", stringTag, StringV(<<195>>)),
      Field(<<73>>, "", stringTag, StringV(<<60, 34>>)) }

NameOf(f) == f.Name

FieldSeqs ==
    { fs \in SeqsUpTo(SomeFields, MaxFields) : Len(fs) >= 2 /\ Distinct([i \in 1..Len(fs) |-> NameOf(fs[i])]) }

Structs == { StructV("main.S", fs) : fs \in FieldSeqs }

\* Composite values inside composite values.
Inner ==
    { StructV("main.S", <<Field(<<65>>, "", <<>>, IntV(5)),
                          Field(<<71>>, "", <<>>, FuncV)>>),
      StructV("main.S", <<Field(<<65>>, "", <<>>, IntV(5))>>),
      StructV("main.S", <<Field(<<66>>, "", omitemptyTag, IntV(0))>>),
      SliceV("[]interface {}", <<IntV(5), StringV(<<195>>)>>),
      SliceV("[]interface {}", <<NilInterfaceV, IntV(5)>>),
      MapV("map[string]interface {}", "String", FALSE,
           <<[k |-> <<98>>, val |-> IntV(1)], [k |-> <<97>>, val |-> NilInterfaceV]>>),
      MapV("map[string]interface {}", "String", FALSE,
           <<[k |-> <<98>>, val |-> FuncV], [k |-> <<97>>, val |-> StringV(<<195>>)]>>),
      PtrV("*main.T", WithHook(EmptyStruct, "main.T", OkHook)),
      ByteSliceV(<<104, 105>>) }

Nested ==
    { SliceV("[]interface {}", <<x, y>>) : x, y \in Inner }
    \cup { StructV("main.O", <<Field(<<80>>, "", tag, x), Field(<<81>>, "", <<>>, y)>>) :
            tag \in {<<>>, omitemptyTag, stringTag}, x, y \in Inner }
    \cup { MapV("map[string]interface {}", "String", FALSE,
                <<[k |-> <<122>>, val |-> x], [k |-> <<121>>, val |-> y]>>) :
            x, y \in Inner }
    \cup { PtrV("*T", PtrV("*T", x)) : x \in Inner }

\* Everything Marshal is called with: nil, and values of every kind.
Inputs ==
    {InvalidV} \cup Leaves \cup LongByteSlices \cup Refs \cup Seqs \cup Maps
    \cup OneFieldStructs \cup Structs \cup Nested

\* What MarshalForHTML is called with.
HtmlInputs ==
    Strs \cup { StringV(<<38>>), StringV(<<60, 38, 62>>), FuncV,
                WithHook(EmptyStruct, "main.T", OkHook) }
       \cup { MapV("map[string]string", "String", FALSE,
                   <<[k |-> <<38>>, val |-> StringV(<<97, 38>>)]>>) }


--------------------------------------------------------------------------
(* The state machine: one action per entry point.  A behaviour is one call *)
(* from the initial state (and, for HTMLEscape, calls on its own output).  *)

NoRet == [bytes |-> <<>>, err |-> NoError, n |-> 0]

Init ==
    /\ op = "init"
    /\ v = [kind |-> "Invalid"]
    /\ s = <<>>
    /\ dst0 = <<>>
    /\ e = NewEncodeState
    /\ ret = NoRet

\* e.string(t) on an encodeState that already holds d0.
StringCall ==
    /\ op = "init"
    /\ \E d0 \in PriorBufs, t \in SeqsUpTo(EscaperBytes, MaxStrLen) :
        LET r == string(EncodeStateOf(d0), t) IN
        /\ op' = "string"
        /\ s' = t
        /\ dst0' = d0
        /\ e' = r.e
        /\ ret' = [bytes |-> <<>>, err |-> NoError, n |-> r.n]
        /\ UNCHANGED v

\* HTMLEscape(dst, t) on a dst that already holds d0.
HTMLEscapeCall ==
    /\ op = "init"
    /\ \E d0 \in PriorBufs, t \in SeqsUpTo(HtmlBytes, MaxSrcLen) :
        /\ op' = "HTMLEscape"
        /\ s' = t
        /\ dst0' = d0
        /\ e' = EncodeStateOf(HTMLEscape(d0, t))
        /\ ret' = NoRet
        /\ UNCHANGED v

\* What the last call appended to the buffer.
Appended == SubSeq(e.buf, Len(dst0) + 1, Len(e.buf))

\* HTMLEscape applied to what an earlier HTMLEscape appended, on a fresh
\* buffer.
HTMLEscapeAgain ==
    /\ op \in {"HTMLEscape", "HTMLEscapeAgain"}
    /\ Len(Appended) <= 6 * (MaxSrcLen + 1)
    /\ op' = "HTMLEscapeAgain"
    /\ s' = Appended
    /\ dst0' = <<>>
    /\ e' = EncodeStateOf(HTMLEscape(<<>>, Appended))
    /\ ret' = NoRet
    /\ UNCHANGED v

\* Marshal(x)
MarshalCall ==
    /\ op = "init"
    /\ \E x \in Inputs :
        /\ op' = "Marshal"
        /\ v' = x
        /\ e' = marshal(NewEncodeState, x).e
        /\ ret' = Marshal(x)
        /\ UNCHANGED <<s, dst0>>

\* MarshalForHTML(x)
MarshalForHTMLCall ==
    /\ op = "init"
    /\ \E x \in HtmlInputs :
        /\ op' = "MarshalForHTML"
        /\ v' = x
        /\ e' = marshal(NewEncodeState, x).e
        /\ ret' = MarshalForHTML(x)
        /\ UNCHANGED <<s, dst0>>

Next == MarshalCall

Spec == Init /\ [][Next]_vars

NextEscaper == StringCall

SpecEscaper == Init /\ [][NextEscaper]_vars

NextHTML == HTMLEscapeCall \/ HTMLEscapeAgain \/ MarshalForHTMLCall

SpecHTML == Init /\ [][NextHTML]_vars

--------------------------------------------------------------------------
(* Properties.                                                             *)

\* The lowercase hexadecimal digit of d, 0 <= d < 16.
HexDigit(d) == IF d < 10 THEN 48 + d ELSE 87 + d

\* Well-formed UTF-8 from index i (1-based) on, by the byte ranges of the
\* encoding: 00..7F | C2..DF 80..BF | E0 A0..BF 80..BF | E1..EF 80..BF 80..BF
\* | F0 90..BF 80..BF 80..BF | F1..F4 80..BF 80..BF 80..BF.
RECURSIVE WellFormedFrom(_, _)
WellFormedFrom(str, i) ==
    LET n == Len(str)
        In(k, lo, hi) == k <= n /\ lo <= str[k] /\ str[k] <= hi
    IN  IF i > n THEN TRUE
        ELSE IF str[i] < 128 THEN WellFormedFrom(str, i + 1)
        ELSE IF In(i, 194, 223) THEN
            In(i + 1, 128, 191) /\ WellFormedFrom(str, i + 2)
        ELSE IF In(i, 224, 224) THEN
            In(i + 1, 160, 191) /\ In(i + 2, 128, 191)
            /\ WellFormedFrom(str, i + 3)
        ELSE IF In(i, 225, 239) THEN
            In(i + 1, 128, 191) /\ In(i + 2, 128, 191)
            /\ WellFormedFrom(str, i + 3)
        ELSE IF In(i, 240, 240) THEN
            In(i + 1, 144, 191) /\ In(i + 2, 128, 191) /\ In(i + 3, 128, 191)
            /\ WellFormedFrom(str, i + 4)
        ELSE IF In(i, 241, 244) THEN
            In(i + 1, 128, 191) /\ In(i + 2, 128, 191) /\ In(i + 3, 128, 191)
            /\ WellFormedFrom(str, i + 4)
        ELSE FALSE

WellFormed(str) == WellFormedFrom(str, 1)

\* The rendering of one byte inside a JSON string literal.
RenderByte(b) ==
    IF b = 92 \/ b = 34 THEN <<92, b>>
    ELSE IF b = 10 THEN <<92, 110>>
    ELSE IF b = 13 THEN <<92, 114>>
    ELSE IF b < 32 \/ b = 60 \/ b = 62
        THEN <<92, 117, 48, 48, HexDigit(b \div 16), HexDigit(b % 16)>>
    ELSE <<b>>

RECURSIVE RenderBytes(_)
RenderBytes(str) ==
    IF str = <<>> THEN <<>> ELSE RenderByte(Head(str)) \o RenderBytes(Tail(str))

\* renderString of the specification: the byte-by-byte reference.
RenderString(str) == <<34>> \o RenderBytes(str) \o <<34>>

Escaped(b) == b < 32 \/ b \in {34, 92, 60, 62}

\* C5: for every well-formed text s, e.string(s) appends exactly a double
\* quote, the rendering of each byte of s in order, and a double quote to
\* what the buffer held, raises nothing, and returns the number of bytes
\* it appended.
C5_StringIsByteWiseRendering ==
    (op = "string" /\ WellFormed(s)) =>
        /\ ~Panicking(e)
        /\ e.buf = dst0 \o RenderString(s)
        /\ ret.n = Len(e.buf) - Len(dst0)

\* C5 witness: an escaped byte first, next to a multi-byte sequence, and an
\* escaped byte last, on a buffer that already held bytes.
C5_Witness ==
    /\ op = "string" /\ WellFormed(s) /\ Len(s) = 3 /\ dst0 # <<>>
    /\ ~Panicking(e)
    /\ \/ Escaped(s[1]) /\ s[2] >= 128
       \/ s[1] >= 128 /\ Escaped(s[3])

HtmlSpecial(c) == c = 60 \/ c = 62 \/ c = 38

HtmlRenderByte(c) ==
    IF c = 60 THEN <<92, 117, 48, 48, 51, 99>>
    ELSE IF c = 62 THEN <<92, 117, 48, 48, 51, 101>>
    ELSE IF c = 38 THEN <<92, 117, 48, 48, 50, 54>>
    ELSE <<c>>

RECURSIVE HtmlRender(_)
HtmlRender(str) ==
    IF str = <<>> THEN <<>>
    ELSE HtmlRenderByte(Head(str)) \o HtmlRender(Tail(str))

\* C10: HTMLEscape(dst, src) keeps what dst held and appends src with each
\* <, >, & replaced by \u003c, \u003e, \u0026 and every other byte kept in
\* order; what it appends holds none of the three bytes, is src itself
\* when src holds none of them, and HTMLEscape of its own output gives that
\* output again.
C10_HTMLEscapeAppendsEscaped ==
    (op \in {"HTMLEscape", "HTMLEscapeAgain"}) =>
        /\ SubSeq(e.buf, 1, Len(dst0)) = dst0
        /\ Appended = HtmlRender(s)
        /\ \A i \in 1..Len(Appended) : ~HtmlSpecial(Appended[i])
        /\ ((\A i \in 1..Len(s) : ~HtmlSpecial(s[i])) => Appended = s)
        /\ (op = "HTMLEscapeAgain" => Appended = s)

\* MarshalForHTML returns Marshal's error, or Marshal's bytes escaped.
MarshalForHTMLEscapes ==
    (op = "MarshalForHTML") =>
        IF Marshal(v).err # NoError
            THEN ret.bytes = <<>> /\ ret.err = Marshal(v).err
            ELSE /\ ret.err = NoError
                 /\ ret.bytes = HtmlRender(Marshal(v).bytes)
                 /\ \A i \in 1..Len(ret.bytes) : ~HtmlSpecial(ret.bytes[i])

\* C10 witness: HTMLEscape ran on its own output, which came from a src
\* holding all three bytes, appended to a dst that held bytes.
C10_Witness ==
    /\ op = "HTMLEscapeAgain"
    /\ Len(s) = 18
    /\ Appended = s

\* Lexicographic order of byte strings, by the first byte that differs.
RECURSIVE LexLess(_, _)
LexLess(a, b) ==
    IF b = <<>> THEN FALSE
    ELSE IF a = <<>> THEN TRUE
    ELSE IF Head(a) # Head(b) THEN Head(a) < Head(b)
    ELSE LexLess(Tail(a), Tail(b))

RECURSIVE Ascending(_)
\* The strings of the set S in strictly ascending order.
Ascending(S) ==
    IF S = {} THEN <<>>
    ELSE LET m == CHOOSE x \in S : \A y \in S \ {x} : LexLess(x, y)
         IN  <<m>> \o Ascending(S \ {m})

KeySet(val) == { val.pairs[i].k : i \in 1..Len(val.pairs) }

\* The index of key among the pairs of val.
ValueAt(val, key) ==
    CHOOSE i \in 1..Len(val.pairs) : val.pairs[i].k = key

\* A field the struct encoding emits: exported, and not both tagged
\* omitempty and empty.
HasOption(f, name) == f.Tag # <<>> /\ Contains(parseTag(f.Tag).opts, name)

Emitted(f) ==
    f.PkgPath = "" /\ ~(HasOption(f, omitemptyName) /\ isEmptyValue(f.val))

RECURSIVE ErrorsOf(_)
RECURSIVE ErrorsOfAll(_, _)
\* The errors the sub-values of val raise, each taken alone, in traversal
\* order: struct fields in declaration order, elements in index order, map
\* entries in ascending key order (a key before its value).
ErrorsOf(val) ==
    IF val.kind = "Invalid" THEN <<>>
    ELSE IF Implements(val) THEN
        LET h == MarshalJSON(val) IN
        IF h.err # "" THEN <<MarshalerError(val.type, h.err)>>
        ELSE IF ~ValidJSON(h.out) THEN <<MarshalerError(val.type, "SyntaxError")>>
        ELSE <<>>
    ELSE IF val.kind \in {"Bool", "Int", "Uint", "Float"} THEN <<>>
    ELSE IF val.kind = "String" THEN
        (IF WellFormed(val.str) THEN <<>> ELSE <<InvalidUTF8Error(val.str)>>)
    ELSE IF val.kind = "Struct" THEN
        ErrorsOfAll([i \in 1..Len(val.fields) |->
                        IF Emitted(val.fields[i])
                            THEN ErrorsOf(val.fields[i].val) ELSE <<>>], 1)
    ELSE IF val.kind = "Map" THEN
        IF val.keyKind # "String" THEN <<UnsupportedTypeError(val.type)>>
        ELSE IF val.isNil THEN <<>>
        ELSE LET ks == Ascending(KeySet(val)) IN
             ErrorsOfAll([i \in 1..Len(ks) |->
                (IF WellFormed(ks[i]) THEN <<>> ELSE <<InvalidUTF8Error(ks[i])>>)
                \o ErrorsOf(val.pairs[ValueAt(val, ks[i])].val)], 1)
    ELSE IF val.kind \in {"Array", "Slice"} THEN
        IF val.type = byteSliceType THEN <<>>
        ELSE ErrorsOfAll([i \in 1..Len(val.elems) |-> ErrorsOf(val.elems[i])], 1)
    ELSE IF val.kind \in {"Interface", "Ptr"} THEN
        (IF val.isNil THEN <<>> ELSE ErrorsOf(val.elem))
    ELSE <<UnsupportedTypeError(val.type)>>

ErrorsOfAll(errs, i) ==
    IF i > Len(errs) THEN <<>> ELSE errs[i] \o ErrorsOfAll(errs, i + 1)

\* C1: Marshal returns either the whole buffer and no error, when no
\* sub-value fails, or no bytes and the first error in traversal order,
\* however many bytes were written and however many later sub-values fail.
C1_FailFastNoPartialOutput ==
    (op = "Marshal") =>
        LET errs == ErrorsOf(v) IN
        IF errs = <<>>
            THEN ret.err = NoError /\ ret.bytes = e.buf /\ ret.bytes # <<>>
            ELSE ret.bytes = <<>> /\ ret.err = errs[1]

\* C1 witness: a map whose two values fail with different errors and whose
\* keys are delivered in descending order; bytes were written before the
\* error and none is returned.
C1_Witness ==
    /\ op = "Marshal" /\ v.kind = "Map" /\ ~Implements(v)
    /\ Len(v.pairs) = 2
    /\ LexLess(v.pairs[2].k, v.pairs[1].k)
    /\ Len(ErrorsOf(v)) = 2
    /\ ErrorsOf(v)[1] # ErrorsOf(v)[2]
    /\ ret.err = ErrorsOf(v.pairs[2].val)[1]
    /\ Len(e.buf) > 0 /\ ret.bytes = <<>>

RECURSIVE Perms(_)
\* Every order of the elements of the set S.
Perms(S) ==
    IF S = {} THEN {<<>>}
    ELSE UNION { { <<x>> \o p : p \in Perms(S \ {x}) } : x \in S }

RECURSIVE MembersFrom(_, _, _)
\* "key":value of the keys ks[i..], separated by commas.
MembersFrom(val, ks, i) ==
    IF i > Len(ks) THEN <<>>
    ELSE (IF i > 1 THEN <<44>> ELSE <<>>)
         \o RenderString(ks[i]) \o <<58>>
         \o reflectValue(NewEncodeState, val.pairs[ValueAt(val, ks[i])].val).buf
         \o MembersFrom(val, ks, i + 1)

IsStringMap(val) ==
    val.kind = "Map" /\ ~Implements(val) /\ val.keyKind = "String" /\ ~val.isNil

\* C2: a map with string keys encodes as an object listing each key once,
\* in strictly ascending order, each followed by the encoding of its own
\* value, whatever the order in which the keys are delivered: the same map
\* delivered in any other order gives the same result.
C2_MapOrderIndependent ==
    (op = "Marshal" /\ IsStringMap(v)) =>
        /\ ret.err = NoError =>
            ret.bytes = <<123>> \o MembersFrom(v, Ascending(KeySet(v)), 1) \o <<125>>
        /\ \A q \in Perms({ v.pairs[i] : i \in 1..Len(v.pairs) }) :
            LET other == Marshal([v EXCEPT !.pairs = q])
            IN  other.bytes = ret.bytes /\ other.err = ret.err

\* C2 witness: two keys delivered in descending order, encoded without
\* error.
C2_Witness ==
    /\ op = "Marshal" /\ IsStringMap(v)
    /\ Len(v.pairs) = 2
    /\ LexLess(v.pairs[2].k, v.pairs[1].k)
    /\ ret.err = NoError
    /\ Len(ret.bytes) > 2

Empty(val) ==
    \/ val.kind = "Bool" /\ val.b = FALSE
    \/ val.kind \in {"Int", "Uint"} /\ val.n = 0
    \/ val.kind = "Float" /\ val.f2 = 0
    \/ val.kind = "String" /\ val.str = <<>>
    \/ val.kind \in {"Array", "Slice"} /\ val.elems = <<>>
    \/ val.kind = "Map" /\ val.pairs = <<>>
    \/ val.kind \in {"Ptr", "Interface"} /\ val.isNil

Skipped(f) == f.PkgPath # "" \/ (HasOption(f, omitemptyName) /\ Empty(f.val))

\* The key of a field: the name of its tag when that is valid, else its own.
KeyName(f) ==
    IF f.Tag # <<>> /\ isValidTag(parseTag(f.Tag).name)
        THEN parseTag(f.Tag).name ELSE f.Name

RECURSIVE JoinComma(_)
\* The texts of parts with one comma between neighbours.
JoinComma(parts) ==
    IF parts = <<>> THEN <<>>
    ELSE IF Len(parts) = 1 THEN parts[1]
    ELSE parts[1] \o <<44>> \o JoinComma(Tail(parts))

KeptFields(val) == SelectSeq(val.fields, LAMBDA f : ~Skipped(f))

\* "key":value of field f, the value encoded as the dispatch encodes it.
Member(f) ==
    RenderString(KeyName(f)) \o <<58>>
    \o reflectValueQuoted(NewEncodeState, f.val, HasOption(f, stringName)).buf

IsPlainStruct(val) == val.kind = "Struct" /\ ~Implements(val)

\* C3: a struct encodes as {, the members of its fields that are exported
\* and not both omitempty and empty, in declaration order with exactly one
\* comma between neighbours, and }; with every field skipped it is {}.
C3_StructEmitsKeptFields ==
    (op = "Marshal" /\ IsPlainStruct(v) /\ ret.err = NoError) =>
        LET kept == KeptFields(v) IN
        /\ ret.bytes = <<123>>
                \o JoinComma([i \in 1..Len(kept) |-> Member(kept[i])])
                \o <<125>>
        /\ kept = <<>> => ret.bytes = <<123, 125>>

\* C3 witness: three fields, the first and the last skipped (one empty with
\* omitempty, one not exported), the middle one emitted alone.
C3_Witness ==
    /\ op = "Marshal" /\ IsPlainStruct(v) /\ ret.err = NoError
    /\ Len(v.fields) = 3
    /\ Skipped(v.fields[1]) /\ ~Skipped(v.fields[2]) /\ Skipped(v.fields[3])
    /\ v.fields[1].PkgPath # v.fields[3].PkgPath
    /\ ret.bytes = <<123>> \o Member(v.fields[2]) \o <<125>>

HexValue(c) == IF c >= 97 THEN c - 87 ELSE c - 48

RECURSIVE Unescape(_, _)
\* The content of a JSON string literal from index i on, its escapes
\* undone, up to the closing quote.
Unescape(t, i) ==
    IF i >= Len(t) THEN <<>>
    ELSE IF t[i] # 92 THEN <<t[i]>> \o Unescape(t, i + 1)
    ELSE IF t[i + 1] = 110 THEN <<10>> \o Unescape(t, i + 2)
    ELSE IF t[i + 1] = 114 THEN <<13>> \o Unescape(t, i + 2)
    ELSE IF t[i + 1] = 117
        THEN <<HexValue(t[i + 4]) * 16 + HexValue(t[i + 5])>> \o Unescape(t, i + 6)
    ELSE <<t[i + 1]>> \o Unescape(t, i + 2)

\* JSON-decoding of a string literal.
DecodeString(t) == Unescape(t, 2)

Primitive(val) ==
    ~Implements(val) /\ val.kind \in {"Bool", "Int", "Uint", "Float"}

QuotedPrimitive(f) == HasOption(f, stringName) /\ Primitive(f.val)

QuotedString(f) ==
    HasOption(f, stringName) /\ ~Implements(f.val) /\ f.val.kind = "String"

\* The encoding of val outside any struct.
NormalText(val) == reflectValue(NewEncodeState, val).buf

\* The member value of field f under the string option, or without it.
MemberValue(f) ==
    IF QuotedPrimitive(f) THEN <<34>> \o NormalText(f.val) \o <<34>>
    ELSE IF QuotedString(f) THEN RenderString(RenderString(f.val.str))
    ELSE NormalText(f.val)

\* C6: in a struct whose fields with the string option are primitives or
\* strings, the value of such a primitive field is its normal text in
\* double quotes, the value of such a string field with content s is
\* renderString(renderString(s)), which decoded twice is s, and every
\* field without the option has its normal encoding.
C6_StringOptionWraps ==
    (/\ op = "Marshal" /\ IsPlainStruct(v) /\ ret.err = NoError
     /\ \A i \in 1..Len(v.fields) :
            HasOption(v.fields[i], stringName) =>
                QuotedPrimitive(v.fields[i]) \/ QuotedString(v.fields[i]))
    =>
        LET kept == KeptFields(v) IN
        /\ ret.bytes = <<123>>
                \o JoinComma([i \in 1..Len(kept) |->
                        RenderString(KeyName(kept[i])) \o <<58>>
                        \o MemberValue(kept[i])])
                \o <<125>>
        /\ \A i \in 1..Len(kept) :
            QuotedString(kept[i]) =>
                DecodeString(DecodeString(MemberValue(kept[i]))) = kept[i].val.str

\* C6 witness: a primitive and a string field with the string option, and a
\* later integer field without it that is encoded unquoted.
C6_Witness ==
    /\ op = "Marshal" /\ IsPlainStruct(v) /\ ret.err = NoError
    /\ Len(v.fields) = 3
    /\ \E i, j, k \in 1..3 :
        /\ i < k /\ j < k
        /\ QuotedPrimitive(v.fields[i])
        /\ QuotedString(v.fields[j]) /\ v.fields[j].val.str # <<>>
        /\ ~HasOption(v.fields[k], stringName) /\ ~Skipped(v.fields[k])
        /\ v.fields[k].val.kind = "Int"

\* The types whose element representation is a raw byte: []byte, a named
\* slice of bytes, an array of bytes.
RawByteElems(val) ==
    val.kind \in {"Array", "Slice"} /\ ~Implements(val)
    /\ val.type \in {byteSliceType, "main.Bytes", "[n]uint8"}

Base64Text(val) == <<34>> \o Base64Encode(BytesOf(val.elems)) \o <<34>>

IntegerArrayText(val) ==
    <<91>> \o JoinComma([i \in 1..Len(val.elems) |-> Digits(val.elems[i].n)])
           \o <<93>>

\* C7 as stated: every sequence of raw bytes, slice or array, of a named or
\* an unnamed type, encodes as one double-quoted base64 string.
C7_EveryByteSequenceIsBase64 ==
    (op = "Marshal" /\ RawByteElems(v)) =>
        ret.err = NoError /\ ret.bytes = Base64Text(v)

\* C7 amended: a value of the unnamed type []byte, of any length, below
\* and from 1024 bytes on, encodes as one double-quoted base64 string
\* ("hi" as "aGk="); a byte array and a named slice of bytes encode as a
\* JSON array of integers.
C7_OnlyByteSliceTypeIsBase64 ==
    (op = "Marshal" /\ RawByteElems(v)) =>
        /\ ret.err = NoError
        /\ v.type = byteSliceType => ret.bytes = Base64Text(v)
        /\ v.type # byteSliceType => ret.bytes = IntegerArrayText(v)
        /\ v = ByteSliceV(<<104, 105>>) => ret.bytes = <<34, 97, 71, 107, 61, 34>>

\* C7 witness: a []byte on the long path whose length is no multiple of 3.
C7_Witness ==
    /\ op = "Marshal" /\ RawByteElems(v) /\ v.type = byteSliceType
    /\ Len(v.elems) >= ShortLimit /\ Len(v.elems) % 3 # 0
    /\ ret.bytes = Base64Text(v)

HookOk(val) == MarshalJSON(val).err = "" /\ ValidJSON(MarshalJSON(val).out)

\* The bytes of a hook that succeeded, after compaction.
HookText(val) == SelectSeq(MarshalJSON(val).out, LAMBDA c : c # 32)

HookError(val) ==
    MarshalerError(val.type,
        IF MarshalJSON(val).err # "" THEN MarshalJSON(val).err ELSE "SyntaxError")

\* What a value adds to the output: its hook's bytes when it has a hook,
\* else its structural encoding.
TextOf(val, quoted) ==
    IF Implements(val) THEN HookText(val)
    ELSE reflectValueQuoted(NewEncodeState, val, quoted).buf

\* The first element of a sequence has a failing hook, or has none and the
\* hook of a later one fails after elements that raise nothing.
FirstFailingHook(elems) ==
    { i \in 1..Len(elems) :
        /\ Implements(elems[i]) /\ ~HookOk(elems[i])
        /\ \A j \in 1..(i - 1) : ErrorsOf(elems[j]) = <<>> }

IsPlainSlice(val) ==
    val.kind = "Slice" /\ ~Implements(val) /\ val.type # byteSliceType

\* C8: a value with the hook, of any structural kind, at the top, behind a
\* pointer, as a sequence element, a struct field or a map value, adds
\* exactly its hook's compacted bytes to the output; a hook that returns an
\* error or invalid JSON ends the encode with MarshalerError carrying the
\* value's type and the cause, and no bytes are returned.
C8_HookHasPriority ==
    (op = "Marshal" /\ v.kind # "Invalid") =>
        /\ Implements(v) =>
            IF HookOk(v) THEN ret.err = NoError /\ ret.bytes = HookText(v)
            ELSE ret.bytes = <<>> /\ ret.err = HookError(v)
        /\ (v.kind = "Ptr" /\ ~Implements(v) /\ ~v.isNil /\ Implements(v.elem)) =>
            IF HookOk(v.elem) THEN ret.err = NoError /\ ret.bytes = HookText(v.elem)
            ELSE ret.bytes = <<>> /\ ret.err = HookError(v.elem)
        /\ IsPlainSlice(v) =>
            /\ ret.err = NoError =>
                ret.bytes = <<91>>
                    \o JoinComma([i \in 1..Len(v.elems) |-> TextOf(v.elems[i], FALSE)])
                    \o <<93>>
            /\ \A i \in FirstFailingHook(v.elems) :
                ret.bytes = <<>> /\ ret.err = HookError(v.elems[i])
        /\ (IsPlainStruct(v) /\ ret.err = NoError) =>
            LET kept == KeptFields(v) IN
            ret.bytes = <<123>>
                \o JoinComma([i \in 1..Len(kept) |->
                        RenderString(KeyName(kept[i])) \o <<58>>
                        \o TextOf(kept[i].val, HasOption(kept[i], stringName))])
                \o <<125>>
        /\ IsStringMap(v) =>
            LET ks == Ascending(KeySet(v))
                vals == [i \in 1..Len(ks) |-> v.pairs[ValueAt(v, ks[i])].val]
            IN  /\ ret.err = NoError =>
                    ret.bytes = <<123>>
                        \o JoinComma([i \in 1..Len(ks) |->
                                RenderString(ks[i]) \o <<58>> \o TextOf(vals[i], FALSE)])
                        \o <<125>>
                /\ (\A i \in 1..Len(ks) : WellFormed(ks[i])) =>
                    \A i \in FirstFailingHook(vals) :
                        ret.bytes = <<>> /\ ret.err = HookError(vals[i])

\* C8 witness: a sequence of a nil pointer whose type has the hook and an
\* interface holding a boolean whose type has the hook; both hooks return
\* JSON with blanks, spliced in compacted.
C8_Witness ==
    /\ op = "Marshal" /\ IsPlainSlice(v) /\ Len(v.elems) = 2
    /\ v.elems[1].kind = "Ptr" /\ v.elems[1].isNil /\ Implements(v.elems[1])
    /\ v.elems[2].kind = "Interface" /\ Implements(v.elems[2])
    /\ HookText(v.elems[1]) # MarshalJSON(v.elems[1]).out
    /\ ret.err = NoError
    /\ ret.bytes = <<91>> \o HookText(v.elems[1]) \o <<44>>
                          \o HookText(v.elems[2]) \o <<93>>

IsNilRef(val) == val.kind \in {"Ptr", "Interface"} /\ val.isNil

WrappedText(val) == RenderString(NormalText(val))

\* C11 as stated: in a struct that encodes without error, the value of
\* every emitted field with the string option whose value is not a nil
\* pointer or interface, whatever its kind (primitive, pointer to a
\* primitive, sequence, map, struct, value with the hook), is a JSON string
\* literal whose content is the field's normal encoding.
C11_StringOptionWrapsEveryKind ==
    (op = "Marshal" /\ IsPlainStruct(v) /\ ret.err = NoError) =>
        LET kept == KeptFields(v) IN
        ret.bytes = <<123>>
            \o JoinComma([i \in 1..Len(kept) |->
                    RenderString(KeyName(kept[i])) \o <<58>>
                    \o (IF HasOption(kept[i], stringName) /\ ~IsNilRef(kept[i].val)
                            THEN WrappedText(kept[i].val)
                            ELSE NormalText(kept[i].val))])
            \o <<125>>

==========================================================================
